---- MODULE Spec2Model ----
(***************************************************************************)
(* A model of package flatjson (src/flatjson.go).                          *)
(*                                                                         *)
(* Flatten walks a struct with package reflect and returns a map from      *)
(* dotted keys to pointers to the struct's fields.  The model keeps what   *)
(* the walk depends on: the static type (fields, tags, embedding,          *)
(* visibility), the value (nil and non-nil pointers, interfaces and their  *)
(* dynamic types), the heap the pointers lead into, and the two flags of   *)
(* a reflect.Value that make reflect panic (addressable, read-only).       *)
(*                                                                         *)
(* Go strings that the code splits, searches or concatenates (tags, field  *)
(* names, keys) are sequences of one-character strings.                    *)
(***************************************************************************)
EXTENDS Integers, Sequences, FiniteSets, TLC

VARIABLES
  typ,      \* the type of the caller's value s
  heap,     \* the objects: 1 is s, 2 is p = &s, 3 is x = interface{}(s)
  res,      \* what each way of calling Flatten on s ended in
  twin,     \* a second value of the same type, and Flatten(&twin)
  written,  \* history: the value the caller last wrote to the field behind a key
  nwrites   \* the number of writes so far

vars == <<typ, heap, res, twin, written, nwrites>>

\* The caller writes at most MaxWrites times after flattening.
MaxWrites == 1

----------------------------------------------------------------------------
(* Strings as character sequences.                                         *)

Comma == ","
Dash == <<"-">>
Dot == <<".">>
omitempty == <<"o", "m", "i", "t", "e", "m", "p", "t", "y">>

\* strings.Index(s, c) for a one-character c, 1-based; 0 when absent.
Index(s, c) ==
  IF \E i \in 1..Len(s) : s[i] = c
  THEN CHOOSE i \in 1..Len(s) : s[i] = c /\ \A j \in 1..(i - 1) : s[j] # c
  ELSE 0

\* strings.SplitN(s, sep, 2): at most two tokens, cut at the first separator.
SplitN2(s, sep) ==
  LET i == Index(s, sep)
  IN IF i = 0 THEN <<s>> ELSE <<SubSeq(s, 1, i - 1), SubSeq(s, i + 1, Len(s))>>

\* strings.Contains(s, sub): sub occurs in s as a substring.
Contains(s, sub) ==
  \E i \in 1..(Len(s) - Len(sub) + 1) : SubSeq(s, i, i + Len(sub) - 1) = sub

----------------------------------------------------------------------------
(* Types (reflect.Type) and struct fields (reflect.StructField).           *)

MkType(k, e, f) == [kind |-> k, elem |-> e, fields |-> f]
TInvalid == MkType("invalid", <<>>, <<>>)
TInt == MkType("int", <<>>, <<>>)
TString == MkType("string", <<>>, <<>>)
TSlice == MkType("slice", <<>>, <<>>)
TIface == MkType("interface", <<>>, <<>>)
TPtr(t) == MkType("ptr", <<t>>, <<>>)
TStruct(fs) == MkType("struct", <<>>, fs)

\* PkgPath is "" for an exported field and the package path otherwise.
MkField(name, pkg, anon, tag, t) ==
  [Name |-> name, PkgPath |-> pkg, Anonymous |-> anon, Tag |-> tag, Type |-> t]
Exported(name, tag, t) == MkField(name, "", FALSE, tag, t)
Unexported(name, tag, t) == MkField(name, "flatjson", FALSE, tag, t)
Embedded(name, tag, t) == MkField(name, "", TRUE, tag, t)

----------------------------------------------------------------------------
(* Values.  n: the number of an int or string, the object a pointer leads  *)
(* to (0: nil), 0 for a nil slice; sub: a struct's fields or the value an  *)
(* interface holds; dyn: the dynamic type an interface holds.              *)

MkVal(n, s, d) == [n |-> n, sub |-> s, dyn |-> d]
VNone == MkVal(0, <<>>, <<>>)
VInt(n) == MkVal(n, <<>>, <<>>)
VPtr(o) == MkVal(o, <<>>, <<>>)
VNilIface == MkVal(0, <<>>, <<>>)
VIface(t, v) == MkVal(0, <<v>>, <<t>>)
VStruct(fs) == MkVal(0, fs, <<>>)

\* reflect.Zero(t): a nil pointer, a nil interface, 0, and a struct of zeros.
RECURSIVE ZeroValue(_)
ZeroValue(t) ==
  IF t.kind = "struct"
  THEN VStruct([i \in 1..Len(t.fields) |-> ZeroValue(t.fields[i].Type)])
  ELSE VNone

\* Go's ==: defined for every type but slices and the structs that hold one.
RECURSIVE Comparable(_)
Comparable(t) ==
  CASE t.kind = "slice" -> FALSE
    [] t.kind = "struct" -> \A i \in 1..Len(t.fields) : Comparable(t.fields[i].Type)
    [] OTHER -> TRUE

----------------------------------------------------------------------------
(* The heap: a sequence of objects; an address is an object and the path   *)
(* of field indexes to a place inside it.                                  *)

RECURSIVE Sub(_, _)
Sub(v, path) == IF path = <<>> THEN v ELSE Sub(v.sub[Head(path)], Tail(path))

RECURSIVE Put(_, _, _)
Put(v, path, nv) ==
  IF path = <<>> THEN nv
  ELSE [v EXCEPT !.sub[Head(path)] = Put(@, Tail(path), nv)]

Load(h, obj, path) == Sub(h[obj], path)
Store(h, obj, path, nv) == [h EXCEPT ![obj] = Put(@, path, nv)]

----------------------------------------------------------------------------
(* reflect.Value: a type, the value, where it is stored, and the flags     *)
(* flagAddr (canAddr) and flagRO (ro).                                     *)

MkValue(t, v, o, p, a, r) ==
  [typ |-> t, val |-> v, obj |-> o, path |-> p, canAddr |-> a, ro |-> r]
InvalidValue == MkValue(TInvalid, VNone, 0, <<>>, FALSE, FALSE)

Kind(v) == v.typ.kind
NumField(v) == Len(v.typ.fields)

\* reflect.ValueOf(i): the value an interface holds, not addressable.
ValueOf(i) ==
  IF i.dyn = <<>> THEN InvalidValue
  ELSE MkValue(i.dyn[1], i.sub[1], 0, <<>>, FALSE, FALSE)

\* Value.Field(i): stored inside v; addressable when v is; read-only when v
\* is or when the field is not exported.
Field(v, i) ==
  MkValue(v.typ.fields[i].Type, v.val.sub[i],
          v.obj, IF v.canAddr THEN Append(v.path, i) ELSE <<>>,
          v.canAddr, v.ro \/ v.typ.fields[i].PkgPath # "")

\* Value.Elem(): a pointer's target is addressable, what an interface holds
\* is not; of nil it is the zero Value, whose Kind is Invalid.
Elem(h, v) ==
  IF Kind(v) = "ptr"
  THEN IF v.val.n = 0 THEN InvalidValue
       ELSE MkValue(v.typ.elem[1], h[v.val.n], v.val.n, <<>>, TRUE, v.ro)
  ELSE IF v.val.dyn = <<>> THEN InvalidValue
       ELSE MkValue(v.val.dyn[1], v.val.sub[1], 0, <<>>, FALSE, v.ro)

----------------------------------------------------------------------------
(* The panics a call can end in.                                           *)

NoPanic == ""
PanicNotStruct == "must be called with a struct type"
PanicUnaddressable == "reflect.Value.Addr of unaddressable value"
PanicUnexported == "reflect.Value.Interface: cannot return value obtained from unexported field or method"
PanicUncomparable == "runtime error: comparing uncomparable type"

----------------------------------------------------------------------------
(* isEmptyValue: v.Interface() == reflect.Zero(v.Type()).Interface().      *)

\* Value.Interface(): panics on a read-only Value; of an interface-kind
\* Value it is the interface held, of any other the value boxed in its type.
Interface(v) ==
  IF v.ro THEN [panic |-> PanicUnexported, i |-> VNilIface]
  ELSE [panic |-> NoPanic,
        i |-> IF Kind(v) = "interface" THEN v.val ELSE VIface(v.typ, v.val)]

\* Go's == on two values of type t: "true", "false" or "panic".  Structs are
\* compared field by field in order, stopping at the first difference.
RECURSIVE DeepEq(_, _, _)
RECURSIVE IfaceEq(_, _)
RECURSIVE FieldsEq(_, _, _, _)
FieldsEq(t, x, y, i) ==
  IF i > Len(t.fields) THEN "true"
  ELSE LET r == DeepEq(t.fields[i].Type, x.sub[i], y.sub[i])
       IN IF r # "true" THEN r ELSE FieldsEq(t, x, y, i + 1)

DeepEq(t, x, y) ==
  CASE t.kind = "struct" -> FieldsEq(t, x, y, 1)
    [] t.kind = "interface" -> IfaceEq(x, y)
    [] OTHER -> IF x.n = y.n THEN "true" ELSE "false"

\* Go's == on two interface values: different dynamic types are unequal,
\* equal uncomparable dynamic types panic.
IfaceEq(x, y) ==
  IF x.dyn # y.dyn THEN "false"
  ELSE IF x.dyn = <<>> THEN "true"
  ELSE IF ~Comparable(x.dyn[1]) THEN "panic"
  ELSE DeepEq(x.dyn[1], x.sub[1], y.sub[1])

isEmptyValue(v) ==
  LET a == Interface(v)
      z == Interface(MkValue(v.typ, ZeroValue(v.typ), 0, <<>>, FALSE, FALSE))
      r == IfaceEq(a.i, z.i)
  IN IF a.panic # NoPanic THEN [panic |-> a.panic, empty |-> FALSE]
     ELSE IF r = "panic" THEN [panic |-> PanicUncomparable, empty |-> FALSE]
     ELSE [panic |-> NoPanic, empty |-> r = "true"]

----------------------------------------------------------------------------
(* keyForField: the field's key and whether it is an anonymous (promoted)  *)
(* field; field.Tag is what Tag.Get("json") returns.                       *)

KeyResult(k, a, p) == [key |-> k, anonymous |-> a, panic |-> p]

\* A variant that tests field.Anonymous before the tag's name, so that an
\* embedded field is promoted whatever its tag names it.
keyForFieldEmbeddedFirst(field, v) ==
  LET tag == field.Tag
      tokens == SplitN2(tag, Comma)
      name == tokens[1]
      opts == IF Len(tokens) > 1 THEN tokens[2] ELSE <<>>
      e == isEmptyValue(v)
  IN IF tag # <<>> /\ name = Dash THEN KeyResult(<<>>, FALSE, NoPanic)
     ELSE IF tag # <<>> /\ Contains(opts, omitempty) /\ e.panic # NoPanic
     THEN KeyResult(<<>>, FALSE, e.panic)
     ELSE IF tag # <<>> /\ Contains(opts, omitempty) /\ e.empty
     THEN KeyResult(<<>>, FALSE, NoPanic)
     ELSE IF field.Anonymous THEN KeyResult(<<>>, TRUE, NoPanic)
     ELSE IF name # <<>> THEN KeyResult(name, FALSE, NoPanic)
     ELSE KeyResult(field.Name, FALSE, NoPanic)

\* A variant that drops every exported tagged field whose value is zero
\* (|| for && in the test of line 33).
keyForFieldOmitAny(field, v) ==
  LET tag == field.Tag
      tokens == SplitN2(tag, Comma)
      name == tokens[1]
      opts == IF Len(tokens) > 1 THEN tokens[2] ELSE <<>>
      e == isEmptyValue(v)
      rest == IF field.Anonymous THEN KeyResult(<<>>, TRUE, NoPanic)
              ELSE KeyResult(field.Name, FALSE, NoPanic)
  IN IF tag # <<>>
     THEN IF name = Dash \/ Contains(opts, omitempty) THEN KeyResult(<<>>, FALSE, NoPanic)
          ELSE IF e.panic # NoPanic THEN KeyResult(<<>>, FALSE, e.panic)
          ELSE IF e.empty THEN KeyResult(<<>>, FALSE, NoPanic)
          ELSE IF name # <<>> THEN KeyResult(name, FALSE, NoPanic)
          ELSE rest
     ELSE rest

keyForField(field, v) ==
  LET tag == field.Tag
      tokens == SplitN2(tag, Comma)
      name == tokens[1]
      opts == IF Len(tokens) > 1 THEN tokens[2] ELSE <<>>
      e == isEmptyValue(v)
      rest == IF field.Anonymous THEN KeyResult(<<>>, TRUE, NoPanic)
              ELSE KeyResult(field.Name, FALSE, NoPanic)
  IN IF tag # <<>>
     THEN IF name = Dash THEN KeyResult(<<>>, FALSE, NoPanic)
          ELSE IF Contains(opts, omitempty) /\ e.panic # NoPanic
               THEN KeyResult(<<>>, FALSE, e.panic)
          ELSE IF Contains(opts, omitempty) /\ e.empty
               THEN KeyResult(<<>>, FALSE, NoPanic)
          ELSE IF name # <<>> THEN KeyResult(name, FALSE, NoPanic)
          ELSE rest
     ELSE rest

----------------------------------------------------------------------------
(* extractValue: follow pointers and interfaces down to a struct, or give  *)
(* back the fallback.                                                      *)

RECURSIVE extractValue(_, _, _)

extractValue(h, val, fallback) ==
  CASE Kind(val) = "struct" -> val
    [] Kind(val) = "ptr" -> extractValue(h, Elem(h, val), fallback)
    [] Kind(val) = "interface" -> extractValue(h, Elem(h, val), fallback)
    [] OTHER -> fallback

----------------------------------------------------------------------------
(* recursiveFlatten.  The traversal state st threads the output map and,   *)
(* as history, the registrations in order (regs), one record per field     *)
(* visited (log) and the panic that ended the walk, if any.                *)

\* child.Addr().Interface(): a pointer to where child is stored.
MkEntry(t, o, p, v) == [typ |-> t, obj |-> o, path |-> p, val |-> v]
NoEntry == MkEntry(TInvalid, 0, <<>>, VNone)

\* A variant that stores the child's value, not its address
\* (child.Interface() for child.Addr().Interface()).
AddrInterfaceCopy(child) ==
  IF ~child.canAddr THEN [panic |-> PanicUnaddressable, e |-> NoEntry]
  ELSE IF child.ro THEN [panic |-> PanicUnexported, e |-> NoEntry]
  ELSE [panic |-> NoPanic, e |-> MkEntry(child.typ, 0, <<>>, child.val)]

AddrInterface(child) ==
  IF ~child.canAddr THEN [panic |-> PanicUnaddressable, e |-> NoEntry]
  ELSE IF child.ro THEN [panic |-> PanicUnexported, e |-> NoEntry]
  ELSE [panic |-> NoPanic,
        e |-> MkEntry(TPtr(child.typ), child.obj, child.path, VNone)]

\* Reading through a map entry.
Deref(h, e) == IF e.obj # 0 THEN Load(h, e.obj, e.path) ELSE e.val

\* output[k] = e
SetKey(output, k, e) == (k :> e) @@ output

EmptyState == [output |-> <<>>, regs |-> <<>>, log |-> <<>>, panic |-> NoPanic]

\* What the walk did with one field: the history the properties read.
\* trail is the keys of the named fields from the root down to this field's
\* parent; reached tells how far the iteration got.
Visit(prefix, field, raw, trail) ==
  [prefix |-> prefix, field |-> field, raw |-> raw, trail |-> trail,
   key |-> <<>>, anonymous |-> FALSE, reached |-> "key", panic |-> NoPanic,
   ext |-> InvalidValue, childPrefix |-> <<>>, childAdded |-> 0,
   nestedRegs |-> 0, regKey |-> <<>>, entry |-> NoEntry]

Logged(st, v) == [st EXCEPT !.log = Append(@, v)]

RECURSIVE recursiveFlatten(_, _, _, _, _)

\* Lines 87-88: output[prefix+key] = child.Addr().Interface(); added++
register(child, prefix, key, added, st, v) ==
  LET a == AddrInterface(child)
  IN IF a.panic # NoPanic
     THEN [added |-> added,
           st |-> [Logged(st, [v EXCEPT !.reached = "addr", !.panic = a.panic])
                     EXCEPT !.panic = a.panic]]
     ELSE [added |-> added + 1,
           st |-> [Logged(st, [v EXCEPT !.reached = "registered",
                                        !.regKey = prefix \o key, !.entry = a.e])
                     EXCEPT !.output = SetKey(@, prefix \o key, a.e),
                            !.regs = Append(@, [key |-> prefix \o key, entry |-> a.e,
                                                typ |-> child.typ, obj |-> child.obj,
                                                path |-> child.path])]]

\* The child prefix of line 66 and lines 75-77.
childPrefixOf(prefix, key, anonymous) ==
  IF ~anonymous THEN prefix \o key \o Dot ELSE <<>>

\* The iteration for one field is cut into the steps below, each handing
\* what it computed to the next.

\* Lines 81-88: the nested call has returned.
afterNested(prefix, key, added, st, v1, ext, nested) ==
  IF nested.st.panic # NoPanic
  THEN [added |-> added, st |-> nested.st]
  ELSE IF nested.added # 0
  THEN [added |-> added + nested.added,
        st |-> Logged(nested.st,
                      [v1 EXCEPT !.reached = "absorbed", !.childAdded = nested.added,
                                 !.nestedRegs = Len(nested.st.regs) - Len(st.regs)])]
  ELSE register(ext, prefix, key, added, nested.st,
                [v1 EXCEPT !.childAdded = nested.added,
                           !.nestedRegs = Len(nested.st.regs) - Len(st.regs)])

\* Lines 79-88: a struct is walked with the child prefix, anything else is
\* registered.
afterExtract(h, prefix, key, anonymous, added, st, trail, v1, ext, childPrefix) ==
  IF Kind(ext) # "struct"
  THEN register(ext, prefix, key, added, st, v1)
  ELSE afterNested(prefix, key, added, st, v1, ext,
                   recursiveFlatten(h, ext, childPrefix, st,
                                    IF anonymous THEN trail ELSE Append(trail, key)))

\* Lines 70-77: skip the field, or extract its value and build the prefix.
afterKey(h, prefix, added, st, trail, child, childType, kf, v0) ==
  IF kf.panic # NoPanic
  THEN [added |-> added,
        st |-> [Logged(st, [v0 EXCEPT !.panic = kf.panic]) EXCEPT !.panic = kf.panic]]
  ELSE IF childType.PkgPath # "" \/ (kf.key = <<>> /\ ~kf.anonymous)
  THEN [added |-> added, st |-> Logged(st, [v0 EXCEPT !.reached = "skipped"])]
  ELSE afterExtract(h, prefix, kf.key, kf.anonymous, added, st, trail,
                    [v0 EXCEPT !.ext = extractValue(h, child, child),
                               !.childPrefix = childPrefixOf(prefix, kf.key, kf.anonymous)],
                    extractValue(h, child, child),
                    childPrefixOf(prefix, kf.key, kf.anonymous))

withKey(h, prefix, added, st, trail, child, childType, kf) ==
  afterKey(h, prefix, added, st, trail, child, childType, kf,
           [Visit(prefix, childType, child, trail)
              EXCEPT !.key = kf.key, !.anonymous = kf.anonymous])

\* Lines 64-68: one iteration of the loop, for field i.
visitField(h, val, prefix, i, added, st, trail) ==
  withKey(h, prefix, added, st, trail, Field(val, i), val.typ.fields[i],
          keyForField(val.typ.fields[i], Field(val, i)))

RECURSIVE fieldLoop(_, _, _, _, _, _, _)
fieldLoop(h, val, prefix, i, added, st, trail) ==
  IF i > NumField(val) \/ st.panic # NoPanic
  THEN [added |-> added, st |-> st]
  ELSE LET r == visitField(h, val, prefix, i, added, st, trail)
       IN fieldLoop(h, val, prefix, i + 1, r.added, r.st, trail)

recursiveFlatten(h, val, prefix, st, trail) ==
  fieldLoop(h, val, prefix, 1, 0, st, trail)

----------------------------------------------------------------------------
(* flattenValue and Flatten.                                               *)

Result(p, added, st) ==
  [done |-> TRUE, panic |-> p, m |-> IF p = NoPanic THEN st.output ELSE <<>>,
   added |-> added,
   regs |-> st.regs, log |-> st.log]
NotCalled ==
  [done |-> FALSE, panic |-> NoPanic, m |-> <<>>, added |-> 0,
   regs |-> <<>>, log |-> <<>>]

RECURSIVE flattenValue(_, _)
flattenValue(h, val) ==
  IF Kind(val) = "ptr" THEN flattenValue(h, Elem(h, val))
  ELSE IF Kind(val) # "struct" THEN Result(PanicNotStruct, 0, EmptyState)
  ELSE LET r == recursiveFlatten(h, val, <<>>, EmptyState, <<>>)
       IN Result(r.st.panic, r.added, r.st)

Flatten(h, val) == flattenValue(h, ValueOf(val))

----------------------------------------------------------------------------
(* The types and values the caller flattens.                               *)

\* type Inner struct{ N int }
Inner == TStruct(<<Exported(<<"N">>, <<>>, TInt)>>)
\* type Point struct{ X, Y int }
Point == TStruct(<<Exported(<<"X">>, <<>>, TInt), Exported(<<"Y">>, <<>>, TInt)>>)
\* type Empty struct{ x int }
Empty == TStruct(<<Unexported(<<"x">>, <<>>, TInt)>>)
\* type Opt struct{ P *int }
Opt == TStruct(<<Exported(<<"P">>, <<>>, TPtr(TInt))>>)

\* type Shape struct{ Point `json:"pt"`; Color string }
Shape ==
  TStruct(<<Embedded(<<"P", "o", "i", "n", "t">>, <<"p", "t">>, Point),
            Exported(<<"C", "o", "l", "o", "r">>, <<>>, TString)>>)
\* type Outer struct{ Inner; Label string }
Outer ==
  TStruct(<<Embedded(<<"I", "n", "n", "e", "r">>, <<>>, Inner),
            Exported(<<"L", "a", "b", "e", "l">>, <<>>, TString)>>)
\* type Deep struct{ A struct{ Inner; Z int }; B int }
Deep ==
  TStruct(<<Exported(<<"A">>, <<>>,
                     TStruct(<<Embedded(<<"I", "n", "n", "e", "r">>, <<>>, Inner),
                               Exported(<<"Z">>, <<>>, TInt)>>)),
            Exported(<<"B">>, <<>>, TInt)>>)
\* type Tagged struct{ Skip int `json:"-"`; Count int `json:"count,omitempty"`
\*                     Str int `json:"s,string"`; Plain int `json:",omitempty"` }
Tagged ==
  TStruct(<<Exported(<<"S", "k", "i", "p">>, <<"-">>, TInt),
            Exported(<<"C", "o", "u", "n", "t">>,
                     <<"c", "o", "u", "n", "t", ",">> \o omitempty, TInt),
            Exported(<<"S", "t", "r">>, <<"s", ",", "s", "t", "r", "i", "n", "g">>, TInt),
            Exported(<<"P", "l", "a", "i", "n">>, <<",">> \o omitempty, TInt)>>)
\* type Loose struct{ N int `json:"n,noomitempty"`; M int }
Loose ==
  TStruct(<<Exported(<<"N">>, <<"n", ",", "n", "o">> \o omitempty, TInt),
            Exported(<<"M">>, <<>>, TInt)>>)
\* type Hidden struct{ hidden int; Pub int }
Hidden ==
  TStruct(<<Unexported(<<"h", "i", "d", "d", "e", "n">>, <<>>, TInt),
            Exported(<<"P", "u", "b">>, <<>>, TInt)>>)
\* type HiddenOmit struct{ hidden int `json:"h,omitempty"`; Pub int }
HiddenOmit ==
  TStruct(<<Unexported(<<"h", "i", "d", "d", "e", "n">>, <<"h", ",">> \o omitempty, TInt),
            Exported(<<"P", "u", "b">>, <<>>, TInt)>>)
\* type Ptrs struct{ P *int; Q *Inner; R *Empty }
Ptrs ==
  TStruct(<<Exported(<<"P">>, <<>>, TPtr(TInt)),
            Exported(<<"Q">>, <<>>, TPtr(Inner)),
            Exported(<<"R">>, <<>>, TPtr(Empty))>>)
\* type Box struct{ I interface{} }
Box == TStruct(<<Exported(<<"I">>, <<>>, TIface)>>)
\* type Sliced struct{ L []string; Tags []string `json:"tags,omitempty"` }
Sliced ==
  TStruct(<<Exported(<<"L">>, <<>>, TSlice),
            Exported(<<"T", "a", "g", "s">>, <<"t", "a", "g", "s", ",">> \o omitempty,
                     TSlice)>>)
\* type Holder struct{ E Empty; N int }
Holder ==
  TStruct(<<Exported(<<"E">>, <<>>, Empty), Exported(<<"N">>, <<>>, TInt)>>)
\* type EmbDash struct{ Inner `json:"-"`; L int }
EmbDash ==
  TStruct(<<Embedded(<<"I", "n", "n", "e", "r">>, <<"-">>, Inner),
            Exported(<<"L">>, <<>>, TInt)>>)
\* type EmbOmit struct{ Inner `json:",omitempty"`; L int }
EmbOmit ==
  TStruct(<<Embedded(<<"I", "n", "n", "e", "r">>, <<",">> \o omitempty, Inner),
            Exported(<<"L">>, <<>>, TInt)>>)
\* type EmbEmpty struct{ A struct{ Empty; Z int } }
EmbEmpty ==
  TStruct(<<Exported(<<"A">>, <<>>,
                     TStruct(<<Embedded(<<"E", "m", "p", "t", "y">>, <<>>, Empty),
                               Exported(<<"Z">>, <<>>, TInt)>>))>>)
\* type Clash struct{ Inner; N int }
Clash ==
  TStruct(<<Embedded(<<"I", "n", "n", "e", "r">>, <<>>, Inner),
            Exported(<<"N">>, <<>>, TInt)>>)

Bit == {0, 1}

\* A case: the type, the value of s, and the objects s points to (objects
\* 4, 5, ... of the heap).
Case(t, s, extra) == [typ |-> t, s |-> s, extra |-> extra]

Catalog ==
  {Case(Shape, VStruct(<<VStruct(<<VInt(a), VInt(2)>>), VInt(b)>>), <<>>) : a, b \in Bit}
  \cup {Case(Outer, VStruct(<<VStruct(<<VInt(a)>>), VInt(b)>>), <<>>) : a, b \in Bit}
  \cup {Case(Deep, VStruct(<<VStruct(<<VStruct(<<VInt(a)>>), VInt(3)>>), VInt(b)>>), <<>>) :
          a, b \in Bit}
  \cup {Case(Tagged, VStruct(<<VInt(1), VInt(a), VInt(b), VInt(c)>>), <<>>) : a, b, c \in Bit}
  \cup {Case(Loose, VStruct(<<VInt(a), VInt(1)>>), <<>>) : a \in Bit}
  \cup {Case(Hidden, VStruct(<<VInt(a), VInt(b)>>), <<>>) : a, b \in Bit}
  \cup {Case(HiddenOmit, VStruct(<<VInt(a), VInt(1)>>), <<>>) : a \in Bit}
  \cup {Case(Ptrs, VStruct(<<VPtr(p), VPtr(q), VPtr(r)>>),
             <<VInt(7), VStruct(<<VInt(1)>>), VStruct(<<VInt(0)>>)>>) :
          p \in {0, 4}, q \in {0, 5}, r \in {0, 6}}
  \cup {Case(Box, VStruct(<<i>>), <<VStruct(<<VInt(1)>>), VStruct(<<VInt(0)>>)>>) :
          i \in {VNilIface, VIface(TInt, VInt(5)), VIface(TInt, VInt(6)),
                 VIface(Inner, VStruct(<<VInt(1)>>)),
                 VIface(TPtr(Inner), VPtr(4)), VIface(TPtr(Empty), VPtr(5)),
                 VIface(Empty, VStruct(<<VInt(0)>>)),
                 VIface(Opt, VStruct(<<VPtr(0)>>))}}
  \cup {Case(Sliced, VStruct(<<VInt(a), VInt(b)>>), <<>>) : a, b \in Bit}
  \cup {Case(Empty, VStruct(<<VInt(a)>>), <<>>) : a \in Bit}
  \cup {Case(Holder, VStruct(<<VStruct(<<VInt(a)>>), VInt(b)>>), <<>>) : a, b \in Bit}
  \cup {Case(EmbDash, VStruct(<<VStruct(<<VInt(a)>>), VInt(1)>>), <<>>) : a \in Bit}
  \cup {Case(EmbOmit, VStruct(<<VStruct(<<VInt(a)>>), VInt(1)>>), <<>>) : a \in Bit}
  \cup {Case(EmbEmpty, VStruct(<<VStruct(<<VStruct(<<VInt(0)>>), VInt(a)>>)>>), <<>>) :
          a \in Bit}
  \cup {Case(Clash, VStruct(<<VStruct(<<VInt(a)>>), VInt(b)>>), <<>>) : a, b \in Bit}
  \cup {Case(Opt, VStruct(<<VPtr(p)>>), <<VInt(7)>>) : p \in {0, 4}}
  \cup {Case(TInt, VInt(a), <<>>) : a \in Bit}
  \cup {Case(TSlice, VInt(a), <<>>) : a \in Bit}

\* The heap of a case: s, then p = &s and x = interface{}(s), then what s
\* points to.
HeapOf(c) == <<c.s, VPtr(1), VIface(c.typ, c.s)>> \o c.extra

----------------------------------------------------------------------------
(* The caller.                                                             *)

\* The ways the caller passes s to Flatten(val interface{}).
Hows == {"ptr", "value", "boxed", "ptrptr", "ptrboxed", "nilptr"}

\* The interface value Flatten receives.
Arg(how, t, h) ==
  CASE how = "ptr" -> VIface(TPtr(t), VPtr(1))            \* Flatten(&s)
    [] how = "value" -> VIface(t, h[1])                    \* Flatten(s)
    [] how = "boxed" -> h[3]                               \* Flatten(x)
    [] how = "ptrptr" -> VIface(TPtr(TPtr(t)), VPtr(2))    \* Flatten(&p)
    [] how = "ptrboxed" -> VIface(TPtr(TIface), VPtr(3))   \* Flatten(&x)
    [] how = "nilptr" -> VIface(TPtr(t), VPtr(0))          \* Flatten((*T)(nil))

NoTwin == [done |-> FALSE, heap |-> <<>>, res |-> NotCalled]

Init ==
  /\ \E c \in Catalog : typ = c.typ /\ heap = HeapOf(c)
  /\ res = [how \in Hows |-> NotCalled]
  /\ twin = NoTwin
  /\ written = <<>>
  /\ nwrites = 0

\* The caller calls Flatten on s, passed one of the ways.
Call(how) ==
  /\ nwrites = 0
  /\ ~res[how].done
  /\ res' = [res EXCEPT ![how] = Flatten(heap, Arg(how, typ, heap))]
  /\ UNCHANGED <<typ, heap, twin, written, nwrites>>

\* The caller calls Flatten(&t) on another value t of the same type.
CallTwin ==
  /\ ~twin.done
  /\ \E c \in Catalog :
       /\ c.typ = typ
       /\ twin' = [done |-> TRUE, heap |-> HeapOf(c),
                   res |-> Flatten(HeapOf(c), Arg("ptr", typ, HeapOf(c)))]
  /\ UNCHANGED <<typ, heap, res, written, nwrites>>

\* The values the caller may write to a field of type t, each with the
\* object it allocates, if any.
RECURSIVE Fill(_, _)
Fill(t, n) ==
  CASE t.kind = "struct" -> VStruct([i \in 1..Len(t.fields) |-> Fill(t.fields[i].Type, n)])
    [] t.kind \in {"int", "string", "slice"} -> VInt(n)
    [] OTHER -> VNone

WriteChoices(h, t) ==
  CASE t.kind = "ptr" ->
         {[v |-> VPtr(0), alloc |-> <<>>],
          [v |-> VPtr(Len(h) + 1), alloc |-> <<Fill(t.elem[1], 9)>>]}
    [] t.kind = "interface" ->
         {[v |-> VNilIface, alloc |-> <<>>], [v |-> VIface(TInt, VInt(9)), alloc |-> <<>>]}
    [] OTHER -> {[v |-> Fill(t, 8), alloc |-> <<>>], [v |-> Fill(t, 9), alloc |-> <<>>]}

\* The registration behind key k of a result: the last one made under k.
Backing(r, k) ==
  r.regs[CHOOSE j \in 1..Len(r.regs) :
           /\ r.regs[j].key = k
           /\ \A l \in (j + 1)..Len(r.regs) : r.regs[l].key # k]

\* After m := Flatten(&s), the caller assigns to the field of s behind key k.
Write ==
  /\ res["ptr"].done /\ res["ptr"].panic = NoPanic
  /\ nwrites < MaxWrites
  /\ \E k \in DOMAIN res["ptr"].m :
       \E w \in WriteChoices(heap, Backing(res["ptr"], k).typ) :
         LET b == Backing(res["ptr"], k)
         IN /\ heap' = Store(heap, b.obj, b.path, w.v) \o w.alloc
            /\ written' = (k :> w.v) @@ written
  /\ nwrites' = nwrites + 1
  /\ UNCHANGED <<typ, res, twin>>

Next == (\E how \in Hows : Call(how)) \/ CallTwin \/ Write

Spec == Init /\ [][Next]_vars

----------------------------------------------------------------------------
(* What the properties read.                                               *)

\* Every call made so far, with the heap it ran on.  The calls on s ran on
\* the heap as it was before the caller's first write.
Runs ==
  {[r |-> res[how], h |-> heap, how |-> how] : how \in Hows}
  \cup {[r |-> twin.res, h |-> twin.heap, how |-> "ptr"]}

VisitsOf(r) == {r.log[j] : j \in DOMAIN r.log}
AllVisits == UNION {VisitsOf(x.r) : x \in Runs}

\* The override name of a tag: the text before its first comma.
OverrideName(tag) ==
  IF Index(tag, Comma) = 0 THEN tag ELSE SubSeq(tag, 1, Index(tag, Comma) - 1)

\* The options of a tag: the comma-separated items after the override name.
RECURSIVE Items(_)
Items(s) ==
  IF Index(s, Comma) = 0 THEN {s}
  ELSE {SubSeq(s, 1, Index(s, Comma) - 1)}
         \cup Items(SubSeq(s, Index(s, Comma) + 1, Len(s)))

Options(tag) ==
  IF Index(tag, Comma) = 0 THEN {}
  ELSE Items(SubSeq(tag, Index(tag, Comma) + 1, Len(tag)))

\* The keys joined with dots.
RECURSIVE DotJoin(_)
DotJoin(keys) ==
  IF keys = <<>> THEN <<>>
  ELSE IF Len(keys) = 1 THEN keys[1]
  ELSE keys[1] \o Dot \o DotJoin(Tail(keys))

\* The value equals the zero value of its declared type.
IsZero(t, v) == v = ZeroValue(t)

\* The visit got as far as extracting the field's value.
Extracted(v) == v.reached \in {"registered", "absorbed", "addr"}

\* The entry is a pointer to where the Value is stored.
RefersTo(e, val) == e.obj # 0 /\ e.obj = val.obj /\ e.path = val.path

----------------------------------------------------------------------------
(* Reference liveness.                                                     *)

\* Reading through every entry of m gives what the field behind the key
\* holds now, and what the caller last wrote to it.
LiveReferences ==
  res["ptr"].done /\ res["ptr"].panic = NoPanic =>
    /\ \A k \in DOMAIN res["ptr"].m :
         Deref(heap, res["ptr"].m[k])
           = Load(heap, Backing(res["ptr"], k).obj, Backing(res["ptr"], k).path)
    /\ \A k \in DOMAIN written :
         k \in DOMAIN res["ptr"].m /\ Deref(heap, res["ptr"].m[k]) = written[k]

\* No step changes a map Flatten has returned.
MapKept == \A how \in Hows : res[how].done => res'[how] = res[how]

----------------------------------------------------------------------------
(* Failure.                                                                *)

\* The input with every pointer followed.
RECURSIVE FullyDereferenced(_, _)
FullyDereferenced(h, v) ==
  IF Kind(v) = "ptr" THEN FullyDereferenced(h, Elem(h, v)) ELSE v

\* C2: Flatten fails if and only if the fully dereferenced input is not a
\* struct; on every input that dereferences to a struct it returns a map.
FailsOnlyOnNonComposite ==
  nwrites = 0 =>
    \A how \in Hows :
      res[how].done =>
        (res[how].panic # NoPanic
           <=> Kind(FullyDereferenced(heap, ValueOf(Arg(how, typ, heap)))) # "struct")

----------------------------------------------------------------------------
(* Indirection transparency.                                               *)

\* C3: Flatten(&s), Flatten(s) and Flatten of an interface holding s all
\* complete, with the same keys and equal values behind them.
IndirectionTransparent ==
  typ.kind = "struct" /\ nwrites = 0
    /\ res["ptr"].done /\ res["value"].done /\ res["boxed"].done =>
      \A a, b \in {"ptr", "value", "boxed"} :
        /\ res[a].panic = NoPanic
        /\ DOMAIN res[a].m = DOMAIN res[b].m
        /\ \A k \in DOMAIN res[a].m \cap DOMAIN res[b].m :
             Deref(heap, res[a].m[k]) = Deref(heap, res[b].m[k])

----------------------------------------------------------------------------
(* Path construction.                                                      *)

\* C4: the child prefix of a promoted field is the current prefix, of any
\* other field prefix + key + "."; so every registered key is the keys of
\* the named fields from the root to the leaf, joined with dots.
PathConstruction ==
  \A v \in AllVisits :
    /\ Extracted(v) =>
         v.childPrefix = IF v.anonymous THEN v.prefix ELSE v.prefix \o v.key \o Dot
    /\ v.reached = "registered" =>
         v.regKey = DotJoin(IF v.anonymous THEN v.trail ELSE Append(v.trail, v.key))

----------------------------------------------------------------------------
(* Key-set determinism.                                                    *)

\* The omitempty test applies to a field: line 33 finds the text in the
\* tag's options.
OmitTested(f) ==
  Index(f.Tag, Comma) # 0
    /\ Contains(SubSeq(f.Tag, Index(f.Tag, Comma) + 1, Len(f.Tag)), omitempty)

\* Two values of type t agree on which fields the omitempty test finds
\* empty and, with shape, on which pointers and interfaces are nil and on
\* the dynamic types the interfaces hold.
RECURSIVE Agree(_, _, _, _, _, _)
Agree(t, h1, v1, h2, v2, shape) ==
  CASE t.kind = "struct" ->
         \A i \in 1..Len(t.fields) :
           /\ OmitTested(t.fields[i]) =>
                (IsZero(t.fields[i].Type, v1.sub[i]) <=> IsZero(t.fields[i].Type, v2.sub[i]))
           /\ Agree(t.fields[i].Type, h1, v1.sub[i], h2, v2.sub[i], shape)
    [] t.kind = "ptr" ->
         IF v1.n = 0 \/ v2.n = 0 THEN ~shape \/ v1.n = v2.n
         ELSE Agree(t.elem[1], h1, h1[v1.n], h2, h2[v2.n], shape)
    [] t.kind = "interface" ->
         IF v1.dyn = <<>> \/ v1.dyn # v2.dyn THEN ~shape \/ v1.dyn = v2.dyn
         ELSE Agree(v1.dyn[1], h1, v1.sub[1], h2, v2.sub[1], shape)
    [] OTHER -> TRUE

BothFlattened == nwrites = 0 /\ res["ptr"].done /\ twin.done

----------------------------------------------------------------------------
(* Visibility.                                                             *)

\* C6: a field that is not exported is skipped, whatever its tag and value,
\* and never makes Flatten fail.
UnexportedSkipped ==
  \A v \in AllVisits :
    v.field.PkgPath # "" => v.reached = "skipped" /\ v.panic = NoPanic

----------------------------------------------------------------------------
(* Conditional exclusion.                                                  *)

\* C7: an exported field whose override name is not "-" is excluded if and
\* only if omitempty is one of its tag's options and its value is the zero
\* value of its type; the test never fails.
ConditionalExclusion ==
  \A v \in AllVisits :
    v.field.PkgPath = "" /\ OverrideName(v.field.Tag) # Dash =>
      /\ v.reached # "key"
      /\ v.reached = "skipped"
           <=> (omitempty \in Options(v.field.Tag) /\ IsZero(v.raw.typ, v.raw.val))

----------------------------------------------------------------------------
(* Key resolution.                                                         *)

\* C8: for every exported field, (1) the override name "-" excludes it;
\* (2) any other override name is the key of the field the walk keeps, and
\* the field is not promoted even if embedded; (3) with no override name an
\* embedded field is promoted and adds no segment; (4) otherwise the key is
\* the declared name.
KeyResolution ==
  \A v \in AllVisits :
    v.field.PkgPath = "" =>
      /\ OverrideName(v.field.Tag) = Dash => v.reached = "skipped"
      /\ v.reached \notin {"key", "skipped"} =>
           /\ OverrideName(v.field.Tag) \notin {<<>>, Dash} =>
                /\ v.key = OverrideName(v.field.Tag) /\ ~v.anonymous
                /\ v.reached = "registered" =>
                     v.regKey = v.prefix \o OverrideName(v.field.Tag)
           /\ OverrideName(v.field.Tag) = <<>> /\ v.field.Anonymous =>
                /\ v.anonymous
                /\ v.reached = "registered" => v.regKey = v.prefix
           /\ OverrideName(v.field.Tag) = <<>> /\ ~v.field.Anonymous =>
                /\ v.key = v.field.Name /\ ~v.anonymous
                /\ v.reached = "registered" => v.regKey = v.prefix \o v.field.Name

\* An embedded field with an override name was walked under that name and
\* its fields were registered below it.
KeyResolutionWitness ==
  \E x \in Runs :
    \E v \in VisitsOf(x.r) :
      /\ v.field.PkgPath = "" /\ v.field.Anonymous
      /\ OverrideName(v.field.Tag) \notin {<<>>, Dash}
      /\ v.reached = "absorbed" /\ v.key = OverrideName(v.field.Tag)
      /\ \E k \in DOMAIN x.r.m :
           SubSeq(k, 1, Len(v.key) + 1) = v.key \o Dot

----------------------------------------------------------------------------
(* Absorb or fall back.                                                    *)

\* C9: for every field the walk keeps whose extracted value is a struct, if
\* the nested walk added entries the field gets none of its own, and if it
\* added none the field gets exactly one, under prefix + key, pointing to
\* the struct; the count a walk returns is the number of entries it
\* registered.
AbsorbOrFallback ==
  \A x \in Runs :
    /\ x.r.done /\ x.r.panic = NoPanic => x.r.added = Len(x.r.regs)
    /\ \A v \in VisitsOf(x.r) :
         Kind(v.ext) = "struct" /\ Extracted(v) =>
           /\ v.childAdded = v.nestedRegs
           /\ v.childAdded > 0 => v.reached = "absorbed"
           /\ v.childAdded = 0 =>
                /\ v.reached = "registered"
                /\ v.regKey = v.prefix \o v.key
                /\ RefersTo(v.entry, v.ext)
                /\ v.entry.typ = TPtr(v.ext.typ)

----------------------------------------------------------------------------
(* Nil-safety of extraction.                                               *)

\* The end of the chain of pointers and interfaces that starts at v.
RECURSIVE Target(_, _)
Target(h, v) ==
  IF Kind(v) \in {"ptr", "interface"} /\ Elem(h, v) # InvalidValue
  THEN Target(h, Elem(h, v))
  ELSE v

NilPointerToLeaf(v) ==
  Kind(v.raw) = "ptr" /\ v.raw.val.n = 0 /\ v.raw.typ.elem[1].kind # "struct"

\* C10: extractValue returns the struct at the end of the chain of pointers
\* and interfaces, and otherwise the value it was first given, never an
\* intermediate or invalid one; so a nil pointer to a non-struct gets
\* exactly one entry under its key that points to the field, without
\* failure.
NilSafety ==
  nwrites = 0 =>
    \A x \in Runs :
      \A v \in VisitsOf(x.r) :
        Extracted(v) =>
          /\ Kind(v.ext) # "invalid"
          /\ v.ext = IF Kind(Target(x.h, v.raw)) = "struct"
                     THEN Target(x.h, v.raw) ELSE v.raw
          /\ NilPointerToLeaf(v) =>
               /\ v.reached = "registered"
               /\ v.panic = NoPanic
               /\ v.regKey = v.prefix \o v.key
               /\ RefersTo(v.entry, v.raw)

====
